---- MODULE Spec2Model ----
(***************************************************************************)
(* SolarView (EG4 Monitor): the dashboard's telemetry simulator and its    *)
(* refresh cycle.                                                          *)
(*                                                                         *)
(* The repository holds two revisions of the dashboard component: App.tsx  *)
(* and the one in unnamed/part_000.  The variable rev says which of them   *)
(* runs; it never changes.                                                 *)
(*                                                                         *)
(* Numbers.  Watts are counted in tenths of a watt (8250 W = 82500).       *)
(* batteryPercent is counted in twentieths of a percentage point           *)
(* (92 % = 1840, 0.1 = 2, 99.95 = 1999), batteryVoltage in tenths of a     *)
(* volt.  Time is counted in milliseconds since midnight of the day the    *)
(* page was loaded.                                                        *)
(***************************************************************************)
EXTENDS Integers, Sequences, FiniteSets, TLC

VARIABLES
    rev,            \* which revision of the component runs
    apiKey,         \* geminiService.ts: process.env.API_KEY is set
    start,          \* the time the page was loaded
    budget,         \* how many calls of refreshData the model follows
    now,            \* the wall clock
    mounted,        \* the effects of the first render have run
    data,           \* useState<InverterData>
    insight,        \* useState<string>
    isRefreshing,   \* useState(false)
    lastRefreshed,  \* useState<Date>
    timers,         \* registered setInterval callbacks: the data each captured
    timeouts,       \* scheduled setTimeout callbacks, in the order they fire
    awaiting,       \* timeout callbacks suspended at await generateSystemInsight
    refreshes,      \* how many times refreshData has been called
    exchange,       \* the last call of a geminiService function that returned
    script,         \* ScriptBuilder: useState<string>('')
    workflow,       \* ScriptBuilder: useState<string>('')
    loading,        \* ScriptBuilder: useState(false)
    mode,           \* ScriptBuilder: useState<'direct' | 'relay'>('relay')
    relayType,      \* ScriptBuilder: useState<'local' | 'github'>('local')
    generating,     \* the calls of handleGenerate suspended at an await
    sent,           \* the prompts the last handleGenerate sent to the provider
    requested,      \* the mode and relayType the last handleGenerate read
    generations     \* how many times handleGenerate has been called

builderVars == <<script, workflow, loading, mode, relayType, generating, sent,
                 requested, generations>>

vars == <<rev, apiKey, start, budget, now, mounted, data, insight, isRefreshing,
          lastRefreshed, timers, timeouts, awaiting, refreshes, exchange,
          script, workflow, loading, mode, relayType, generating, sent,
          requested, generations>>

\* -------------------------------------------------------------------------
\* Bounds of the model.
MaxRefreshes == 2
MaxOverlapRefreshes == 3
MaxGenerations == 2

\* -------------------------------------------------------------------------
\* Units.
Revisions == {"App", "part_000"}

Percent(whole, twentieths) == whole * 20 + twentieths

Watts(whole) == whole * 10

\* A string is the sequence of its pieces; a fixed message is one piece and
\* the empty string has none.
Text(piece) == <<piece>>

Max(a, b) == IF a >= b THEN a ELSE b

Min(a, b) == IF a <= b THEN a ELSE b

\* Date.prototype.toLocaleTimeString: the time of day in whole seconds,
\* without the date.
toLocaleTimeString(t) == (t \div 1000) % 86400

\* setTimeout(..., 1200) (App.tsx), setTimeout(..., 1500) (part_000).
Delay(r) == IF r = "App" THEN 1200 ELSE 1500

\* setInterval(refreshData, 300000).
Period == 300000

\* Math.random(): a value u in [0, 1), here u = k / 1000.
Random == {0, 999}

\* Math.random() * 400 - 200 (App.tsx), Math.random() * 200 - 100 (part_000).
PvFluctuationWide(r, k) ==
    IF r = "App" THEN (k * Watts(800)) \div 1000 - Watts(400)
    ELSE (k * Watts(400)) \div 1000 - Watts(200)

PvFluctuation(r, k) ==
    IF r = "App" THEN (k * Watts(400)) \div 1000 - Watts(200)
    ELSE (k * Watts(200)) \div 1000 - Watts(100)

\* Math.random() * 200 - 100 (App.tsx), Math.random() * 100 - 50 (part_000).
LoadFluctuationWide(r, k) ==
    IF r = "App" THEN (k * Watts(400)) \div 1000 - Watts(200)
    ELSE (k * Watts(200)) \div 1000 - Watts(100)

LoadFluctuation(r, k) ==
    IF r = "App" THEN (k * Watts(200)) \div 1000 - Watts(100)
    ELSE (k * Watts(100)) \div 1000 - Watts(50)

\* data.batteryWatts > 0 ? 0.2 : -0.1 (App.tsx), ? 0.1 : -0.1 (part_000).
BatteryStepProportional(r, batteryWatts) ==
    IF batteryWatts > 0
    THEN (IF r = "App" THEN Percent(0, 4) ELSE Percent(0, 2))
            * (1 + batteryWatts \div Watts(1000))
    ELSE -Percent(0, 2)

BatteryStep(r, batteryWatts) ==
    IF batteryWatts > 0
    THEN (IF r = "App" THEN Percent(0, 4) ELSE Percent(0, 2))
    ELSE -Percent(0, 2)

INITIAL_DATA(r, t) ==
    IF r = "App"
    THEN [pvWatts |-> Watts(8250), batteryPercent |-> Percent(92, 0),
          batteryVoltage |-> 542, batteryWatts |-> Watts(3500),
          loadWatts |-> Watts(4750),
          gridWatts |-> 0, gridStatus |-> "Connected",
          timestamp |-> toLocaleTimeString(t)]
    ELSE [pvWatts |-> Watts(4250), batteryPercent |-> Percent(88, 0),
          batteryVoltage |-> 534, batteryWatts |-> Watts(1200),
          loadWatts |-> Watts(2850),
          gridWatts |-> 0, gridStatus |-> "Connected",
          timestamp |-> toLocaleTimeString(t)]

InitialInsight(r) ==
    IF r = "App" THEN Text("Initializing system connection...")
    ELSE Text("Analyzing system data...")

\* -------------------------------------------------------------------------
\* refreshData, the synchronous part: the new snapshot computed from the
\* captured data d, the two Math.random() values and the time t.

\* pvWatts: Math.max(0, data.pvWatts + (Math.random() * 400 - 200))
pvWattsUnfloored(r, d, kPv) == d.pvWatts + PvFluctuation(r, kPv)

pvWatts(r, d, kPv) == Max(0, d.pvWatts + PvFluctuation(r, kPv))

\* loadWatts: Math.max(500, data.loadWatts + (Math.random() * 200 - 100))
loadWattsUnfloored(r, d, kLoad) == d.loadWatts + LoadFluctuation(r, kLoad)

loadWatts(r, d, kLoad) ==
    Max(Watts(500), d.loadWatts + LoadFluctuation(r, kLoad))

\* batteryPercent: Math.min(100, Math.max(0, data.batteryPercent + (...)))
batteryPercentUncapped(r, d) ==
    Max(0, d.batteryPercent + BatteryStep(r, d.batteryWatts))

batteryPercent(r, d) ==
    Min(Percent(100, 0),
        Max(0, d.batteryPercent + BatteryStep(r, d.batteryWatts)))

\* { ...data, pvWatts: ..., loadWatts: ..., batteryPercent: ..., timestamp: ... }
spreadDataVoltage(r, d, kPv, kLoad, t) ==
    [d EXCEPT
        !.pvWatts = pvWatts(r, d, kPv),
        !.loadWatts = loadWatts(r, d, kLoad),
        !.batteryPercent = batteryPercent(r, d),
        !.batteryVoltage = 480 + (batteryPercent(r, d) \div 20),
        !.timestamp = toLocaleTimeString(t)]

spreadDataBySurplus(r, d, kPv, kLoad, t) ==
    [d EXCEPT
        !.pvWatts = pvWatts(r, d, kPv),
        !.loadWatts = loadWatts(r, d, kLoad),
        !.batteryPercent =
            Min(Percent(100, 0),
                Max(0, d.batteryPercent
                       + BatteryStep(r, pvWatts(r, d, kPv) - loadWatts(r, d, kLoad)))),
        !.timestamp = toLocaleTimeString(t)]

spreadDataFrozen(r, d, kPv, kLoad, t) ==
    [d EXCEPT !.timestamp = toLocaleTimeString(t)]

spreadDataKeepsTimestamp(r, d, kPv, kLoad, t) ==
    [d EXCEPT
        !.pvWatts = pvWatts(r, d, kPv),
        !.loadWatts = loadWatts(r, d, kLoad),
        !.batteryPercent = batteryPercent(r, d)]

spreadData(r, d, kPv, kLoad, t) ==
    [d EXCEPT
        !.pvWatts = pvWatts(r, d, kPv),
        !.loadWatts = loadWatts(r, d, kLoad),
        !.batteryPercent = batteryPercent(r, d),
        !.timestamp = toLocaleTimeString(t)]

surplus(n) == n.pvWatts - n.loadWatts

\* newData after newData.batteryWatts = surplus; newData.gridWatts = 0.
newDataStale(r, d, kPv, kLoad, t) ==
    LET n == spreadData(r, d, kPv, kLoad, t)
    IN  [n EXCEPT !.batteryWatts = surplus(d), !.gridWatts = 0]

newDataKeepsGrid(r, d, kPv, kLoad, t) ==
    LET n == spreadData(r, d, kPv, kLoad, t)
    IN  [n EXCEPT !.batteryWatts = surplus(n)]

newData(r, d, kPv, kLoad, t) ==
    LET n == spreadData(r, d, kPv, kLoad, t)
    IN  [n EXCEPT !.batteryWatts = surplus(n), !.gridWatts = 0]

\* A call of refreshData through a closure that captured d: sets the flag,
\* computes the snapshot and schedules the timeout callback.  The callback
\* holds newData; id, from, at, kPv and kLoad record which call scheduled it,
\* from which data, when and with which random values.
refreshData(d) ==
    /\ refreshes < budget
    /\ \E kPv \in Random, kLoad \in Random :
          timeouts' = Append(timeouts,
              [id |-> refreshes + 1, from |-> d, at |-> now,
               kPv |-> kPv, kLoad |-> kLoad,
               newData |-> newData(rev, d, kPv, kLoad, now)])
    /\ isRefreshing' = TRUE
    /\ refreshes' = refreshes + 1

\* -------------------------------------------------------------------------
\* generateSystemInsight: what the promise resolves to.
InsightOutcomes == IF apiKey THEN {"text", "empty", "throws"} ELSE {"nokey"}

\* How a promise settles.
Fulfilled(v) == [state |-> "fulfilled", value |-> v]

Rejected == [state |-> "rejected", value |-> "error"]

\* The text of the provider's answer about snapshot n.
InsightResponse(n, outcome) ==
    IF outcome = "text" THEN <<"response.text", n>> ELSE <<>>

generateSystemInsightNoCatch(n, outcome) ==
    CASE outcome = "nokey"  ->
            Fulfilled(Text("API Key missing. Cannot generate insights."))
      [] outcome = "throws" -> Rejected
      [] OTHER ->
            Fulfilled(IF InsightResponse(n, outcome) # <<>>
                      THEN InsightResponse(n, outcome)
                      ELSE Text("System Operational."))

generateSystemInsight(n, outcome) ==
    CASE outcome = "nokey"  ->
            Fulfilled(Text("API Key missing. Cannot generate insights."))
      [] outcome = "throws" ->
            Fulfilled(Text("Status: Operational (AI Offline)"))
      [] OTHER ->
            Fulfilled(IF InsightResponse(n, outcome) # <<>>
                      THEN InsightResponse(n, outcome)
                      ELSE Text("System Operational."))

\* A call of a geminiService function that returned: which function, how
\* the provider behaved, the text of its answer and what the caller got.
Exchange(fn, outcome, response, result) ==
    [fn |-> fn, outcome |-> outcome, response |-> response, result |-> result]

\* -------------------------------------------------------------------------
\* The page is loaded at noon or one second before midnight.
StartTimes == {43200000, 86399000}

InitWith(d) ==
    /\ now = start
    /\ mounted = FALSE
    /\ data = d
    /\ insight = InitialInsight(rev)
    /\ isRefreshing = FALSE
    /\ lastRefreshed = start
    /\ timers = <<>>
    /\ timeouts = <<>>
    /\ awaiting = {}
    /\ refreshes = 0
    /\ exchange = <<>>
    /\ script = <<>>
    /\ workflow = <<>>
    /\ loading = FALSE
    /\ mode = "relay"
    /\ relayType = "local"
    /\ generating = <<>>
    /\ sent = <<>>
    /\ requested = <<>>
    /\ generations = 0

Init ==
    /\ rev \in Revisions
    /\ apiKey \in BOOLEAN
    /\ start \in StartTimes
    /\ budget = MaxRefreshes
    /\ InitWith(INITIAL_DATA(rev, start))

\* The effects of the first render: the initial load and the interval.  A
\* component is mounted once.
Mount ==
    /\ ~mounted
    /\ refreshes = 0
    /\ mounted' = TRUE
    /\ refreshData(data)
    /\ timers' = <<[data |-> data, at |-> now]>>
    /\ UNCHANGED <<rev, apiKey, start, budget, now, data, insight, lastRefreshed,
                   awaiting, exchange>>
    /\ UNCHANGED builderVars

\* The Force Refresh button: onClick={refreshData} disabled={isRefreshing}.
ForceRefresh ==
    /\ mounted
    /\ ~isRefreshing
    /\ refreshData(data)
    /\ UNCHANGED <<rev, apiKey, start, budget, now, mounted, data, insight,
                   lastRefreshed, timers, awaiting, exchange>>
    /\ UNCHANGED builderVars

\* setInterval(refreshData, 300000) fires: the callback is the refreshData of
\* the render that registered it.
IntervalFire ==
    /\ \E i \in 1..Len(timers) :
          /\ now >= timers[i].at + Period
          /\ refreshData(timers[i].data)
          /\ timers' = [timers EXCEPT ![i].at = now]
    /\ UNCHANGED <<rev, apiKey, start, budget, now, mounted, data, insight,
                   lastRefreshed, awaiting, exchange>>
    /\ UNCHANGED builderVars

TimeoutFireInsightFirst ==
    /\ timeouts # <<>>
    /\ now >= Head(timeouts).at + Delay(rev)
    /\ apiKey
    /\ awaiting' = awaiting \cup {Head(timeouts)}
    /\ timeouts' = Tail(timeouts)
    /\ UNCHANGED <<rev, apiKey, start, budget, now, mounted, data, insight,
                   isRefreshing, lastRefreshed, timers, refreshes, exchange>>
    /\ UNCHANGED builderVars

\* The setTimeout callback: commits the snapshot (the re-render re-creates
\* refreshData, and the effect clears the interval and registers a new one)
\* and calls generateSystemInsight.  Without an API key the promise is
\* already resolved and the callback finishes before any other task runs;
\* with a key it is suspended until the provider answers.
TimeoutFireKeepsInterval ==
    /\ mounted
    /\ timeouts # <<>>
    /\ now >= Head(timeouts).at + Delay(rev)
    /\ LET p == Head(timeouts)
       IN  /\ data' = p.newData
           /\ lastRefreshed' = now
           /\ timers' = Append(timers, [data |-> p.newData, at |-> now])
           /\ IF apiKey
              THEN /\ awaiting' = awaiting \cup {p}
                   /\ UNCHANGED <<insight, isRefreshing, exchange>>
              ELSE LET r == generateSystemInsight(p.newData, "nokey")
                   IN  /\ insight' = r.value
                       /\ isRefreshing' = FALSE
                       /\ exchange' = <<Exchange("generateSystemInsight",
                                                 "nokey", <<>>, r)>>
                       /\ UNCHANGED awaiting
    /\ timeouts' = Tail(timeouts)
    /\ UNCHANGED <<rev, apiKey, start, budget, now, mounted, refreshes>>
    /\ UNCHANGED builderVars

TimeoutFire ==
    /\ mounted
    /\ timeouts # <<>>
    /\ now >= Head(timeouts).at + Delay(rev)
    /\ LET p == Head(timeouts)
       IN  /\ data' = p.newData
           /\ lastRefreshed' = now
           /\ timers' = <<[data |-> p.newData, at |-> now]>>
           /\ IF apiKey
              THEN /\ awaiting' = awaiting \cup {p}
                   /\ UNCHANGED <<insight, isRefreshing, exchange>>
              ELSE LET r == generateSystemInsight(p.newData, "nokey")
                   IN  /\ insight' = r.value
                       /\ isRefreshing' = FALSE
                       /\ exchange' = <<Exchange("generateSystemInsight",
                                                 "nokey", <<>>, r)>>
                       /\ UNCHANGED awaiting
    /\ timeouts' = Tail(timeouts)
    /\ UNCHANGED <<rev, apiKey, start, budget, now, mounted, refreshes>>
    /\ UNCHANGED builderVars

\* The provider answers and the callback resumes after the await; were the
\* promise rejected, the callback would end there.
InsightResolve ==
    /\ mounted
    /\ \E p \in awaiting, outcome \in InsightOutcomes :
          LET r == generateSystemInsight(p.newData, outcome)
          IN  /\ awaiting' = awaiting \ {p}
              /\ exchange' = <<Exchange("generateSystemInsight", outcome,
                                        InsightResponse(p.newData, outcome), r)>>
              /\ IF r.state = "fulfilled"
                 THEN /\ insight' = r.value
                      /\ isRefreshing' = FALSE
                 ELSE UNCHANGED <<insight, isRefreshing>>
    /\ UNCHANGED <<rev, apiKey, start, budget, now, mounted, data, lastRefreshed,
                   timers, timeouts, refreshes>>
    /\ UNCHANGED builderVars

\* The times at which the interval is due; the model does not follow the
\* interval once all the calls of refreshData it follows have been made.
IntervalDues ==
    IF refreshes < budget
    THEN {timers[i].at + Period : i \in 1..Len(timers)}
    ELSE {}

\* The times at which a scheduled callback is due.
Dues ==
    {timeouts[i].at + Delay(rev) : i \in 1..Len(timeouts)} \cup IntervalDues

\* The times the clock stops at: when a callback is due, and one second
\* before the interval is due (when the user may still press the button).
Wakeups == Dues \cup {d - 1000 : d \in IntervalDues}

\* Time passes, up to the next moment a callback is due; a callback that is
\* due runs before more time passes.
Elapse ==
    /\ \A d \in Dues : d > now
    /\ \E w \in Wakeups :
          /\ w > now
          /\ \A d \in Dues : w <= d
          /\ now' = w
    /\ UNCHANGED <<rev, apiKey, start, budget, mounted, data, insight, isRefreshing,
                   lastRefreshed, timers, timeouts, awaiting, refreshes, exchange>>
    /\ UNCHANGED builderVars

Next ==
    \/ Mount
    \/ ForceRefresh
    \/ IntervalFire
    \/ TimeoutFire
    \/ InsightResolve
    \/ Elapse

Spec == Init /\ [][Next]_vars

\* The runtime runs a callback that is due, time passes, and every call of
\* the provider is answered or fails; the user need not press the button.
FairSpec ==
    /\ Init
    /\ [][Next]_vars
    /\ WF_vars(Mount)
    /\ WF_vars(IntervalFire)
    /\ WF_vars(TimeoutFire)
    /\ WF_vars(InsightResolve)
    /\ WF_vars(Elapse)

\* The component is unmounted: the cleanup of the interval effect runs,
\* () => clearInterval(interval).  The timeouts are not cleared.
Unmount ==
    /\ mounted
    /\ mounted' = FALSE
    /\ timers' = <<>>
    /\ UNCHANGED <<rev, apiKey, start, budget, now, data, insight, isRefreshing,
                   lastRefreshed, timeouts, awaiting, refreshes, exchange>>
    /\ UNCHANGED builderVars

\* A timeout callback that runs after the unmount: the state setters of an
\* unmounted component do nothing and no effect runs, but the provider is
\* still called.
TimeoutFireUnmounted ==
    /\ ~mounted
    /\ timeouts # <<>>
    /\ now >= Head(timeouts).at + Delay(rev)
    /\ LET p == Head(timeouts)
       IN  IF apiKey
           THEN /\ awaiting' = awaiting \cup {p}
                /\ UNCHANGED exchange
           ELSE /\ exchange' = <<Exchange("generateSystemInsight", "nokey", <<>>,
                                     generateSystemInsight(p.newData, "nokey"))>>
                /\ UNCHANGED awaiting
    /\ timeouts' = Tail(timeouts)
    /\ UNCHANGED <<rev, apiKey, start, budget, now, mounted, data, insight,
                   isRefreshing, lastRefreshed, timers, refreshes>>
    /\ UNCHANGED builderVars

InsightResolveUnmounted ==
    /\ ~mounted
    /\ \E p \in awaiting, outcome \in InsightOutcomes :
          /\ awaiting' = awaiting \ {p}
          /\ exchange' = <<Exchange("generateSystemInsight", outcome,
                                    InsightResponse(p.newData, outcome),
                                    generateSystemInsight(p.newData, outcome))>>
    /\ UNCHANGED <<rev, apiKey, start, budget, now, mounted, data, insight,
                   isRefreshing, lastRefreshed, timers, timeouts, refreshes>>
    /\ UNCHANGED builderVars

NextUnmount ==
    \/ Next
    \/ Unmount
    \/ TimeoutFireUnmounted
    \/ InsightResolveUnmounted

SpecUnmount == Init /\ [][NextUnmount]_vars

\* The same component, followed for one more call of refreshData: room for
\* the initial load, a press of the button and a firing of the interval.
InitOverlap ==
    /\ rev \in Revisions
    /\ apiKey \in BOOLEAN
    /\ start = 43200000
    /\ budget = MaxOverlapRefreshes
    /\ InitWith(INITIAL_DATA(rev, start))

SpecOverlap == InitOverlap /\ [][Next]_vars

\* -------------------------------------------------------------------------
\* The tick as a function of the snapshot it is given: the same component,
\* started with any of a set of InverterData values as its data.
InverterData(pv, load, percent, volts, battery, grid, status, t) ==
    [pvWatts |-> pv, batteryPercent |-> percent, batteryVoltage |-> volts,
     batteryWatts |-> battery, loadWatts |-> load, gridWatts |-> grid,
     gridStatus |-> status, timestamp |-> toLocaleTimeString(t)]

InputSnapshots(t) ==
    {INITIAL_DATA(r, t) : r \in Revisions} \cup
    { \* nearly full and full, charging
      InverterData(Watts(4250), Watts(2850), Percent(99, 19), 534,
                   Watts(1400), Watts(0), "Connected", t),
      InverterData(Watts(4250), Watts(2850), Percent(100, 0), 534,
                   Watts(1400), Watts(0), "Connected", t),
      \* empty and nearly empty, discharging, at the floors of PV and load
      InverterData(Watts(0), Watts(500), Percent(0, 0), 534,
                   Watts(-500), Watts(0), "Connected", t),
      InverterData(Watts(50), Watts(520), Percent(0, 1), 534,
                   Watts(-470), Watts(0), "Connected", t),
      \* battery flow exactly zero, and a small surplus that a tick can turn
      InverterData(Watts(600), Watts(600), Percent(50, 0), 534,
                   Watts(0), Watts(0), "Connected", t),
      InverterData(Watts(600), Watts(550), Percent(50, 0), 534,
                   Watts(50), Watts(0), "Connected", t),
      \* a surplus that the lowest draws of src/App.tsx turn into exactly zero
      InverterData(Watts(700), Watts(600), Percent(50, 0), 534,
                   Watts(100), Watts(0), "Connected", t),
      \* a grid reading and a grid status the simulator never produces
      InverterData(Watts(4250), Watts(2850), Percent(88, 0), 534,
                   Watts(1400), Watts(300), "Error", t),
      InverterData(Watts(4250), Watts(2850), Percent(88, 0), 534,
                   Watts(1400), Watts(-300), "Disconnected", t) }

InitAdvance ==
    /\ rev \in Revisions
    /\ apiKey \in BOOLEAN
    /\ start = 43200000
    /\ budget = MaxRefreshes
    /\ \E d \in InputSnapshots(start) : InitWith(d)

SpecAdvance == InitAdvance /\ [][Next]_vars

\* -------------------------------------------------------------------------
\* The refreshes that have computed their snapshot and not yet finished, and
\* those among them whose snapshot is the one now committed.
InFlight == {timeouts[i] : i \in 1..Len(timeouts)} \cup awaiting

Committed == {p \in awaiting : data = p.newData}

EnergyBalance(n) == n.batteryWatts = n.pvWatts - n.loadWatts

\* C1: after every refresh tick the new snapshot's batteryWatts is its own
\* pvWatts minus its own loadWatts, for every computed snapshot and for the
\* committed one.
C1_EnergyBalance ==
    /\ \A p \in InFlight : EnergyBalance(p.newData)
    /\ data # INITIAL_DATA(rev, start) => EnergyBalance(data)

C1_Witness ==
    \E p \in Committed :
        /\ EnergyBalance(data)
        /\ data.batteryWatts # p.from.pvWatts - p.from.loadWatts
        /\ data.batteryWatts # p.from.batteryWatts

\* C2: a tick yields batteryPercent within [0, 100], from 99.95 with
\* batteryWatts > 0 exactly 100, and the committed batteryPercent stays
\* within [0, 100] over any sequence of ticks.
C2_BatteryPercentBounded ==
    /\ \A p \in InFlight :
          /\ p.newData.batteryPercent >= 0
          /\ p.newData.batteryPercent <= Percent(100, 0)
          /\ (p.from.batteryPercent = Percent(99, 19) /\ p.from.batteryWatts > 0)
                => p.newData.batteryPercent = Percent(100, 0)
    /\ data.batteryPercent >= 0
    /\ data.batteryPercent <= Percent(100, 0)

C2_Witness ==
    \E p \in Committed :
        /\ p.from.batteryPercent = Percent(99, 19)
        /\ p.from.batteryWatts > 0
        /\ data.batteryPercent = Percent(100, 0)

Clamp(x, lo, hi) == Min(hi, Max(lo, x))

\* C3 as stated: the step is +0.1 when the previous batteryWatts > 0 and
\* -0.1 otherwise, then clamped to [0, 100].
C3_SymmetricStep ==
    \A p \in InFlight :
        p.newData.batteryPercent =
            Clamp(p.from.batteryPercent
                  + (IF p.from.batteryWatts > 0 THEN Percent(0, 2) ELSE -Percent(0, 2)),
                  0, Percent(100, 0))

\* C3 as amended: the step is fixed and depends only on the sign of the
\* previous batteryWatts: -0.1 when it is not positive, and when it is
\* positive +0.2 in App.tsx and +0.1 in the part_000 revision; the result is
\* clamped to [0, 100].
C3_FixedStep ==
    \A p \in InFlight :
        p.newData.batteryPercent =
            Clamp(p.from.batteryPercent
                  + (IF p.from.batteryWatts <= 0 THEN -Percent(0, 2)
                     ELSE IF rev = "App" THEN Percent(0, 4) ELSE Percent(0, 2)),
                  0, Percent(100, 0))

C3_Witness ==
    \E p \in Committed :
        /\ rev = "App"
        /\ p.from.batteryPercent = Percent(88, 0)
        /\ p.from.batteryWatts = Watts(1200)
        /\ data.batteryPercent = Percent(88, 4)

\* C4: the charge direction is monotonic and decided by the previous
\* snapshot's batteryWatts: positive, batteryPercent does not fall; zero or
\* negative, it does not rise.
C4_MonotonicCharge ==
    \A p \in InFlight :
        /\ p.from.batteryWatts > 0
              => p.newData.batteryPercent >= p.from.batteryPercent
        /\ p.from.batteryWatts <= 0
              => p.newData.batteryPercent <= p.from.batteryPercent

C4_Witness ==
    \E p \in Committed :
        /\ p.from.batteryWatts > 0
        /\ p.newData.batteryWatts < 0
        /\ p.newData.batteryPercent > p.from.batteryPercent

\* C5: a tick yields pvWatts >= 0, exactly 0 when the perturbed value is
\* below 0, and the committed pvWatts is never negative.
C5_PvNonNegative ==
    /\ \A p \in InFlight :
          /\ p.newData.pvWatts >= 0
          /\ p.from.pvWatts + PvFluctuation(rev, p.kPv) < 0 => p.newData.pvWatts = 0
    /\ data.pvWatts >= 0

C5_Witness ==
    \E p \in Committed :
        /\ p.from.pvWatts + PvFluctuation(rev, p.kPv) < 0
        /\ data.pvWatts = 0

\* C6: a tick yields loadWatts >= 500, exactly 500 when the previous load
\* plus the draw is below 500, and the committed loadWatts is never below 500.
C6_LoadFloor ==
    /\ \A p \in InFlight :
          /\ p.newData.loadWatts >= Watts(500)
          /\ p.from.loadWatts + LoadFluctuation(rev, p.kLoad) < Watts(500)
                => p.newData.loadWatts = Watts(500)
    /\ data.loadWatts >= Watts(500)

C6_Witness ==
    \E p \in Committed :
        /\ p.from.loadWatts + LoadFluctuation(rev, p.kLoad) < Watts(500)
        /\ data.loadWatts = Watts(500)

\* C7 as stated: a tick moves pvWatts by at most 100 W.
C7_PvWithin100 ==
    \A p \in InFlight :
        /\ p.newData.pvWatts >= Max(0, p.from.pvWatts - Watts(100))
        /\ p.newData.pvWatts <= p.from.pvWatts + Watts(100)

\* C7 as amended: a tick moves pvWatts by at most 200 W in App.tsx (100 W in
\* the part_000 revision): the new value lies in
\* [max(0, pvWatts - 200), pvWatts + 200].
C7_PvWithinAmplitude ==
    \A p \in InFlight :
        LET a == IF rev = "App" THEN Watts(200) ELSE Watts(100)
        IN  /\ p.newData.pvWatts >= Max(0, p.from.pvWatts - a)
            /\ p.newData.pvWatts <= p.from.pvWatts + a

C7_Witness ==
    \E p \in Committed :
        /\ rev = "App"
        /\ p.from.pvWatts = Watts(8250)
        /\ data.pvWatts = Watts(8050)

\* C8 as stated: a tick moves loadWatts by at most 50 W.
C8_LoadWithin50 ==
    \A p \in InFlight :
        /\ p.newData.loadWatts >= Max(Watts(500), p.from.loadWatts - Watts(50))
        /\ p.newData.loadWatts <= Max(Watts(500), p.from.loadWatts + Watts(50))

\* C8 as amended: a tick moves loadWatts by at most 100 W in App.tsx (50 W
\* in the part_000 revision): the new value lies in
\* [max(500, loadWatts - 100), max(500, loadWatts + 100)].
C8_LoadWithinAmplitude ==
    \A p \in InFlight :
        LET a == IF rev = "App" THEN Watts(100) ELSE Watts(50)
        IN  /\ p.newData.loadWatts >= Max(Watts(500), p.from.loadWatts - a)
            /\ p.newData.loadWatts <= Max(Watts(500), p.from.loadWatts + a)

C8_Witness ==
    \E p \in Committed :
        /\ rev = "App"
        /\ p.from.loadWatts = Watts(4750)
        /\ data.loadWatts = Watts(4650)

\* C9: a tick yields gridWatts = 0 whatever the previous gridWatts and
\* gridStatus were.
C9_GridZero ==
    \A p \in InFlight : p.newData.gridWatts = 0

C9_Witness ==
    \E p \in Committed :
        /\ p.from.gridWatts # 0
        /\ p.from.gridStatus # "Connected"
        /\ data.gridWatts = 0

\* C10: a tick leaves batteryVoltage and gridStatus unchanged, so after any
\* sequence of ticks the committed snapshot still has the initial values.
C10_VoltageAndStatusKept ==
    /\ \A p \in InFlight :
          /\ p.newData.batteryVoltage = p.from.batteryVoltage
          /\ p.newData.gridStatus = p.from.gridStatus
    /\ data.batteryVoltage = INITIAL_DATA(rev, start).batteryVoltage
    /\ data.gridStatus = INITIAL_DATA(rev, start).gridStatus

C10_Witness ==
    \E p \in Committed :
        /\ p.id = 2
        /\ p.from # INITIAL_DATA(rev, start)
        /\ data.batteryPercent # INITIAL_DATA(rev, start).batteryPercent
        /\ data.batteryVoltage = INITIAL_DATA(rev, start).batteryVoltage

\* -------------------------------------------------------------------------
\* geminiService.ts: the script and the workflow.  A response is a sequence
\* of pieces: "<fence>" for a fence of three backquotes, the word after it,
\* " " for a run of white space, or a run of other text.
MOCK_CREDENTIALS ==
    [username |-> "AdamByrne", password |-> "Solar123",
     displaySn |-> "100073581253500339", sensecraftDeviceId |-> "20221942",
     sensecraftApiKey |-> ""]

\* The prompt generatePythonScript builds: which fields of creds it embeds.
PythonPrompt(creds, m, useEnvVars) ==
    [fn |-> "generatePythonScript", mode |-> m, useEnvVars |-> useEnvVars,
     embeds |->
        IF m = "relay"
        THEN (IF useEnvVars THEN {}
              ELSE {"username", "password", "sensecraftApiKey"})
             \cup {"sensecraftDeviceId"}
        ELSE {"username", "password", "displaySn"}]

WorkflowPrompt ==
    [fn |-> "generateGithubWorkflow", mode |-> "relay", useEnvVars |-> TRUE,
     embeds |-> {}]

\* text.replace(/<fence>python/g, "") and text.replace(/<fence>yaml/g, "").
RECURSIVE replaceFence(_, _)
replaceFence(text, lang) ==
    IF text = <<>> THEN <<>>
    ELSE IF Len(text) >= 2 /\ text[1] = "<fence>" /\ text[2] = lang
         THEN replaceFence(SubSeq(text, 3, Len(text)), lang)
         ELSE <<Head(text)>> \o replaceFence(Tail(text), lang)

\* text.replace(/<fence>/g, "").
replaceTicks(text) == SelectSeq(text, LAMBDA piece : piece # "<fence>")

RECURSIVE trimStart(_)
trimStart(text) ==
    IF text # <<>> /\ Head(text) = " " THEN trimStart(Tail(text)) ELSE text

RECURSIVE trimEnd(_)
trimEnd(text) ==
    IF text # <<>> /\ text[Len(text)] = " "
    THEN trimEnd(SubSeq(text, 1, Len(text) - 1))
    ELSE text

trim(text) == trimEnd(trimStart(text))

ScriptOutcomes == IF apiKey THEN {"text", "throws"} ELSE {"nokey"}

\* What the provider may answer to the two prompts.
ScriptResponses ==
    { <<>>,
      <<"import requests">>,
      <<"<fence>", "python", "import requests", " ", "<fence>">>,
      <<" ", "import requests", " ">> }

WorkflowResponses ==
    { <<>>,
      <<"name: Solar Sync">>,
      <<"<fence>", "yaml", " ", "name: Solar Sync", "<fence>", " ">> }

Responses(outcome, texts) == IF outcome = "text" THEN texts ELSE {<<>>}

generatePythonScriptKeepsFence(outcome, response) ==
    CASE outcome = "nokey"  -> Fulfilled(Text("# Error: API Key missing."))
      [] outcome = "throws" ->
            Fulfilled(Text("# Error generating script. Please check API Key and try again."))
      [] OTHER -> Fulfilled(trim(replaceFence(response, "python")))

generatePythonScript(outcome, response) ==
    CASE outcome = "nokey"  -> Fulfilled(Text("# Error: API Key missing."))
      [] outcome = "throws" ->
            Fulfilled(Text("# Error generating script. Please check API Key and try again."))
      [] OTHER ->
            Fulfilled(trim(replaceTicks(replaceFence(response, "python"))))

generateGithubWorkflowNoCatch(outcome, response) ==
    CASE outcome = "nokey"  -> Fulfilled(Text("# Error: API Key missing."))
      [] outcome = "throws" -> Rejected
      [] OTHER ->
            Fulfilled(trim(replaceTicks(replaceFence(response, "yaml"))))

generateGithubWorkflow(outcome, response) ==
    CASE outcome = "nokey"  -> Fulfilled(Text("# Error: API Key missing."))
      [] outcome = "throws" -> Fulfilled(Text("# Error generating workflow."))
      [] OTHER ->
            Fulfilled(trim(replaceTicks(replaceFence(response, "yaml"))))

\* -------------------------------------------------------------------------
\* ScriptBuilder.
appVars == <<rev, apiKey, start, budget, now, mounted, data, insight,
             isRefreshing, lastRefreshed, timers, timeouts, awaiting,
             refreshes>>

\* The Cloud Relay and Direct Hardware buttons.
SetMode(m) ==
    /\ mode # m
    /\ mode' = m
    /\ UNCHANGED <<script, workflow, loading, relayType, generating, sent,
                   requested, generations, exchange>>
    /\ UNCHANGED appVars

\* The Local and GitHub buttons, rendered when mode is relay.
SetRelayType(t) ==
    /\ mode = "relay"
    /\ relayType # t
    /\ relayType' = t
    /\ UNCHANGED <<script, workflow, loading, mode, generating, sent,
                   requested, generations, exchange>>
    /\ UNCHANGED appVars

handleGenerateKeepsScript ==
    /\ ~loading
    /\ generations < MaxGenerations
    /\ generations' = generations + 1
    /\ requested' = <<[mode |-> mode, relayType |-> relayType]>>
    /\ IF apiKey
       THEN /\ loading' = TRUE
            /\ UNCHANGED script
            /\ workflow' = <<>>
            /\ generating' = <<[mode |-> mode, relayType |-> relayType,
                                awaits |-> "generatePythonScript"]>>
            /\ sent' = <<PythonPrompt(MOCK_CREDENTIALS, mode,
                                      relayType = "github")>>
            /\ UNCHANGED exchange
       ELSE LET code == generatePythonScript("nokey", <<>>)
                yaml == generateGithubWorkflow("nokey", <<>>)
            IN  /\ script' = code.value
                /\ IF relayType = "github" /\ mode = "relay"
                   THEN /\ workflow' = yaml.value
                        /\ exchange' = <<Exchange("generateGithubWorkflow",
                                                  "nokey", <<>>, yaml)>>
                   ELSE /\ workflow' = <<>>
                        /\ exchange' = <<Exchange("generatePythonScript",
                                                  "nokey", <<>>, code)>>
                /\ loading' = FALSE
                /\ sent' = <<>>
                /\ UNCHANGED generating
    /\ UNCHANGED <<mode, relayType>>
    /\ UNCHANGED appVars

handleGenerateKeepsWorkflow ==
    /\ ~loading
    /\ generations < MaxGenerations
    /\ generations' = generations + 1
    /\ requested' = <<[mode |-> mode, relayType |-> relayType]>>
    /\ IF apiKey
       THEN /\ loading' = TRUE
            /\ script' = <<>>
            /\ UNCHANGED workflow
            /\ generating' = <<[mode |-> mode, relayType |-> relayType,
                                awaits |-> "generatePythonScript"]>>
            /\ sent' = <<PythonPrompt(MOCK_CREDENTIALS, mode,
                                      relayType = "github")>>
            /\ UNCHANGED exchange
       ELSE LET code == generatePythonScript("nokey", <<>>)
                yaml == generateGithubWorkflow("nokey", <<>>)
            IN  /\ script' = code.value
                /\ IF relayType = "github" /\ mode = "relay"
                   THEN /\ workflow' = yaml.value
                        /\ exchange' = <<Exchange("generateGithubWorkflow",
                                                  "nokey", <<>>, yaml)>>
                   ELSE /\ workflow' = <<>>
                        /\ exchange' = <<Exchange("generatePythonScript",
                                                  "nokey", <<>>, code)>>
                /\ loading' = FALSE
                /\ sent' = <<>>
                /\ UNCHANGED generating
    /\ UNCHANGED <<mode, relayType>>
    /\ UNCHANGED appVars

\* The Generate button: onClick={handleGenerate} disabled={loading}.  With an
\* API key the call is suspended at await generatePythonScript, having sent
\* the prompt; without one both service functions return at once and
\* handleGenerate finishes before any other task runs.
handleGenerate ==
    /\ ~loading
    /\ generations < MaxGenerations
    /\ generations' = generations + 1
    /\ requested' = <<[mode |-> mode, relayType |-> relayType]>>
    /\ IF apiKey
       THEN /\ loading' = TRUE
            /\ script' = <<>>
            /\ workflow' = <<>>
            /\ generating' = <<[mode |-> mode, relayType |-> relayType,
                                awaits |-> "generatePythonScript"]>>
            /\ sent' = <<PythonPrompt(MOCK_CREDENTIALS, mode,
                                      relayType = "github")>>
            /\ UNCHANGED exchange
       ELSE LET code == generatePythonScript("nokey", <<>>)
                yaml == generateGithubWorkflow("nokey", <<>>)
            IN  /\ script' = code.value
                /\ IF relayType = "github" /\ mode = "relay"
                   THEN /\ workflow' = yaml.value
                        /\ exchange' = <<Exchange("generateGithubWorkflow",
                                                  "nokey", <<>>, yaml)>>
                   ELSE /\ workflow' = <<>>
                        /\ exchange' = <<Exchange("generatePythonScript",
                                                  "nokey", <<>>, code)>>
                /\ loading' = FALSE
                /\ sent' = <<>>
                /\ UNCHANGED generating
    /\ UNCHANGED <<mode, relayType>>
    /\ UNCHANGED appVars

\* generatePythonScript returns: setScript(code), then the workflow is
\* requested or the call ends with setLoading(false).  Were the promise
\* rejected, handleGenerate would end at the await.
ScriptResolve ==
    /\ generating # <<>>
    /\ Head(generating).awaits = "generatePythonScript"
    /\ \E outcome \in ScriptOutcomes :
       \E response \in Responses(outcome, ScriptResponses) :
          LET g == Head(generating)
              code == generatePythonScript(outcome, response)
          IN  /\ exchange' = <<Exchange("generatePythonScript", outcome,
                                        response, code)>>
              /\ IF code.state = "rejected"
                 THEN /\ generating' = <<>>
                      /\ UNCHANGED <<script, loading, sent>>
                 ELSE /\ script' = code.value
                      /\ IF g.relayType = "github" /\ g.mode = "relay"
                         THEN /\ generating' =
                                    <<[g EXCEPT !.awaits = "generateGithubWorkflow"]>>
                              /\ sent' = Append(sent, WorkflowPrompt)
                              /\ UNCHANGED loading
                         ELSE /\ generating' = <<>>
                              /\ loading' = FALSE
                              /\ UNCHANGED sent
    /\ UNCHANGED <<workflow, mode, relayType, requested, generations>>
    /\ UNCHANGED appVars

\* generateGithubWorkflow returns: setWorkflow(yaml); setLoading(false).
WorkflowResolve ==
    /\ generating # <<>>
    /\ Head(generating).awaits = "generateGithubWorkflow"
    /\ \E outcome \in ScriptOutcomes :
       \E response \in Responses(outcome, WorkflowResponses) :
          LET yaml == generateGithubWorkflow(outcome, response)
          IN  /\ exchange' = <<Exchange("generateGithubWorkflow", outcome,
                                        response, yaml)>>
              /\ generating' = <<>>
              /\ IF yaml.state = "rejected"
                 THEN UNCHANGED <<workflow, loading>>
                 ELSE /\ workflow' = yaml.value
                      /\ loading' = FALSE
    /\ UNCHANGED <<script, mode, relayType, sent, requested, generations>>
    /\ UNCHANGED appVars

\* The dashboard's initial load together with the Script Builder: every
\* function of geminiService.ts is called.
InitService ==
    /\ rev \in Revisions
    /\ apiKey \in BOOLEAN
    /\ start = 43200000
    /\ budget = 1
    /\ InitWith(INITIAL_DATA(rev, start))

NextService ==
    \/ Mount
    \/ TimeoutFire
    \/ InsightResolve
    \/ Elapse
    \/ \E m \in {"relay", "direct"} : SetMode(m)
    \/ \E t \in {"local", "github"} : SetRelayType(t)
    \/ handleGenerate
    \/ ScriptResolve
    \/ WorkflowResolve

SpecService == InitService /\ [][NextService]_vars

\* Every call of the provider is answered or fails.
FairService ==
    /\ SpecService
    /\ WF_vars(ScriptResolve)
    /\ WF_vars(WorkflowResolve)

\* -------------------------------------------------------------------------
\* What ScriptBuilder renders with a non-empty script: the file name above
\* the script and the variant of the deployment instructions.
FileName(m) == IF m = "relay" THEN "solar_relay.py" ELSE "solar_display.py"

HowToDeploy(m, t) ==
    IF m = "relay" /\ t = "github" THEN "GitHub repository"
    ELSE IF m = "relay" THEN "server/Pi"
    ELSE "reTerminal"

\* -------------------------------------------------------------------------
\* The display layer.  A rendered number is kept in tenths of a watt: it is
\* shown without a decimal point exactly when it is a multiple of Watts(1).
MathRound(x) == ((x + 5) \div 10) * 10

BatterySignNonNegative(d) == IF d.batteryWatts >= 0 THEN "+" ELSE ""

\* ${data.batteryWatts > 0 ? '+' : ''}
BatterySign(d) == IF d.batteryWatts > 0 THEN "+" ELSE ""

\* The subValue of the Battery card.
BatterySubValue(d) ==
    [volts |-> d.batteryVoltage,
     sign  |-> BatterySign(d),
     watts |-> MathRound(d.batteryWatts)]

\* Every watt value rendered from snapshot d: the four metric cards and the
\* two ends of the energy-flow diagram.
RenderedWatts(d) ==
    [cardPv      |-> MathRound(d.pvWatts),
     cardBattery |-> BatterySubValue(d).watts,
     cardLoad    |-> MathRound(d.loadWatts),
     cardGrid    |-> MathRound(d.gridWatts),
     flowPv      |-> d.pvWatts,
     flowLoad    |-> d.loadWatts]

\* -------------------------------------------------------------------------
\* C11: every snapshot held in the UI state, the initial one included,
\* satisfies the data-model invariants.
C11_DataModelInvariants ==
    /\ data.pvWatts >= 0
    /\ data.loadWatts >= Watts(500)
    /\ data.batteryPercent >= 0
    /\ data.batteryPercent <= Percent(100, 0)
    /\ data.gridWatts = 0
    /\ data.batteryWatts = data.pvWatts - data.loadWatts

\* C12: ticks are serialized: at most one refresh is in flight at any time.
C12_Serialized == Cardinality(InFlight) <= 1

\* C13: every committed snapshot was computed from the snapshot committed
\* immediately before it.
C13_NoLostUpdate ==
    [][data' # data => (timeouts # <<>> /\ Head(timeouts).from = data)]_vars

\* C15: a missing or failing provider does not block or corrupt the cycle:
\* the snapshot a refresh computed is committed as computed, and every
\* started refresh ends with the refreshing flag back to false.
Pending(i) == \E p \in InFlight : p.id = i

C15_RefreshCompletes ==
    /\ [][\A i \in 1..Len(timeouts) :
            (timeouts[i] \notin InFlight' \/ timeouts[i] \in awaiting')
                => data' = timeouts[i].newData]_vars
    /\ \A i \in 1..MaxRefreshes :
          Pending(i) ~> (~Pending(i) /\ ~isRefreshing)

C15_Witness ==
    /\ insight \in {Text("Status: Operational (AI Offline)"),
                    Text("API Key missing. Cannot generate insights.")}
    /\ \E p \in InFlight : p.id = 2 /\ p.from = data /\ p.from # INITIAL_DATA(rev, start)

\* C16: the provider is called only after the snapshot has been computed
\* (in an earlier step) and committed, and with the committed snapshot.
C16_InsightAfterCommit ==
    [][/\ \A p \in awaiting' \ awaiting :
             /\ \E i \in 1..Len(timeouts) : timeouts[i] = p
             /\ data' = p.newData
       /\ (~apiKey /\ insight' # insight)
             => insight' = generateSystemInsight(data', "nokey").value]_vars

C16_Witness ==
    \E p \in Committed :
        /\ isRefreshing
        /\ lastRefreshed >= p.at + Delay(rev)
        /\ lastRefreshed = now

\* C20 as stated: the timestamps of successively committed snapshots do not
\* decrease and are never after the time shown as UPDATED.
C20_TimestampsOrdered ==
    \A p \in Committed :
        /\ p.from.timestamp <= data.timestamp
        /\ data.timestamp <= toLocaleTimeString(lastRefreshed)

\* C20 as amended: the timestamp is the time of day of the moment the tick
\* generated the snapshot; these moments do not decrease in the order of
\* commit and are before the moment of the commit.  (The times of day
\* themselves wrap at midnight.)
C20_TimestampOfGeneration ==
    /\ \A p \in InFlight :
          /\ p.newData.timestamp = toLocaleTimeString(p.at)
          /\ p.at <= now
    /\ \A i, j \in 1..Len(timeouts) : i < j => timeouts[i].at <= timeouts[j].at
    /\ \A p \in awaiting : p.at < lastRefreshed

C20_Witness ==
    \E p \in Committed :
        /\ data.timestamp > toLocaleTimeString(lastRefreshed)
        /\ data.timestamp = toLocaleTimeString(p.at)
        /\ p.at < lastRefreshed

\* C18 as stated: the battery power of a snapshot that a tick committed is
\* prefixed with '+' exactly when batteryWatts is non-negative, zero included.
C18_PlusForNonNegative ==
    lastRefreshed > start =>
        ((BatterySubValue(data).sign = "+") <=> (data.batteryWatts >= 0))

\* C18 as amended: the battery power is prefixed with '+' exactly when
\* batteryWatts is greater than zero; exactly 0 and negative values get no
\* '+', and the number shown is batteryWatts rounded to a whole watt.
C18_PlusForPositive ==
    /\ (BatterySubValue(data).sign = "+") <=> (data.batteryWatts > 0)
    /\ BatterySubValue(data).sign \in {"+", ""}
    /\ BatterySubValue(data).watts % Watts(1) = 0
    /\ BatterySubValue(data).watts - data.batteryWatts \in -4..5

C18_Witness ==
    \E p \in Committed :
        /\ data.batteryWatts = 0
        /\ p.from.batteryWatts > 0
        /\ BatterySubValue(data).sign = ""

\* C19: every watt value the display renders from the snapshot is a whole
\* number of watts.
C19_WattsRounded ==
    \A f \in DOMAIN RenderedWatts(data) :
        RenderedWatts(data)[f] % Watts(1) = 0

\* C14: each of the three service functions resolves (never rejects), to
\* its fixed fallback string when the key is missing or the provider
\* throws, and without a key nothing is sent to the provider.
C14_FallbackNeverRejects ==
    /\ \A i \in 1..Len(exchange) :
          LET e == exchange[i]
          IN  /\ e.result.state = "fulfilled"
              /\ ~apiKey => e.outcome = "nokey"
              /\ (e.fn = "generateSystemInsight" /\ e.outcome = "nokey")
                    => e.result.value =
                          <<"API Key missing. Cannot generate insights.">>
              /\ (e.fn = "generateSystemInsight" /\ e.outcome = "throws")
                    => e.result.value = <<"Status: Operational (AI Offline)">>
              /\ (e.fn # "generateSystemInsight" /\ e.outcome = "nokey")
                    => e.result.value = <<"# Error: API Key missing.">>
              /\ (e.fn = "generatePythonScript" /\ e.outcome = "throws")
                    => e.result.value =
                          <<"# Error generating script. Please check API Key and try again.">>
              /\ (e.fn = "generateGithubWorkflow" /\ e.outcome = "throws")
                    => e.result.value = <<"# Error generating workflow.">>
    /\ ~apiKey => (awaiting = {} /\ generating = <<>> /\ sent = <<>>)

C14_Witness ==
    /\ insight = <<"Status: Operational (AI Offline)">>
    /\ script = <<"# Error generating script. Please check API Key and try again.">>
    /\ workflow = <<"# Error generating workflow.">>
    /\ ~loading
    /\ ~isRefreshing

\* C17 as stated: for every successful provider response the text returned
\* to the UI is the response text verbatim.
C17_Verbatim ==
    \A i \in 1..Len(exchange) :
        exchange[i].outcome \in {"text", "empty"}
            => exchange[i].result.value = exchange[i].response

\* C17 as amended: the insight is the response text verbatim unless that
\* text is empty, when it is "System Operational."; the script and the
\* workflow are the response text without its fences (with the language
\* word that follows an opening fence) and without leading and trailing
\* white space, and verbatim when the response has neither.
Content(text) ==
    SelectSeq(text, LAMBDA piece : piece \notin {"<fence>", "python", "yaml", " "})

Pieces(text) == {text[i] : i \in 1..Len(text)}

C17_CleanedResponse ==
    \A i \in 1..Len(exchange) :
        LET e == exchange[i]
            v == e.result.value
        IN  e.outcome \in {"text", "empty"} =>
              IF e.fn = "generateSystemInsight"
              THEN v = IF e.response # <<>> THEN e.response
                       ELSE <<"System Operational.">>
              ELSE /\ "<fence>" \notin Pieces(v)
                   /\ v # <<>> => (v[1] # " " /\ v[Len(v)] # " ")
                   /\ Content(v) = Content(e.response)
                   /\ Len(v) <= Len(e.response)
                   /\ ("<fence>" \notin Pieces(e.response)
                       /\ e.response = trim(e.response)) => v = e.response

C17_Witness ==
    \E i \in 1..Len(exchange) :
        /\ exchange[i].fn = "generatePythonScript"
        /\ exchange[i].outcome = "text"
        /\ "<fence>" \in Pieces(exchange[i].response)
        /\ script = exchange[i].result.value
        /\ script = <<"import requests">>

\* C21: while the dashboard is mounted the automatic refreshes are started
\* at a fixed cadence of five minutes, whatever the manual refreshes do: the
\* interval callback runs a whole number of periods after the page loaded.
C21_FixedCadence ==
    [][(mounted /\ refreshes' = refreshes + 1 /\ timers' # timers)
          => (now - start) % Period = 0]_vars

\* C23: whenever no refresh is in flight, an insight the provider returned
\* is the one it returned for the snapshot on display.
C23_InsightOfDisplayed ==
    (InFlight = {} /\ Len(insight) = 2) => insight[2] = data

\* C24: isRefreshing is true exactly while a refresh is in flight.
C24_RefreshingWhileInFlight == isRefreshing <=> (InFlight # {})

\* C22: the tick is not idempotent.  A tick applied to the result of a tick
\* keeps only gridWatts, batteryVoltage and gridStatus for certain: it moves
\* batteryPercent again whenever the clamp leaves room, so applying it twice
\* differs from applying it once.
C22_NotIdempotent ==
    \A p \in InFlight :
        p.id >= 2 =>
            /\ p.newData.gridWatts = p.from.gridWatts
            /\ p.newData.batteryVoltage = p.from.batteryVoltage
            /\ p.newData.gridStatus = p.from.gridStatus
            /\ (p.from.batteryWatts > 0 /\ p.from.batteryPercent < Percent(100, 0))
                  => p.newData.batteryPercent > p.from.batteryPercent
            /\ (p.from.batteryWatts <= 0 /\ p.from.batteryPercent > 0)
                  => p.newData.batteryPercent < p.from.batteryPercent

C22_Witness ==
    \E p \in InFlight :
        /\ p.id = 2
        /\ p.from = data
        /\ p.newData.pvWatts # p.from.pvWatts
        /\ p.newData.loadWatts # p.from.loadWatts
        /\ p.newData.batteryWatts # p.from.batteryWatts
        /\ p.newData.batteryPercent # p.from.batteryPercent
        /\ p.newData.gridWatts = p.from.gridWatts

\* C30: at most one interval is registered at any time: exactly one while
\* the component is mounted, none after the unmount, and a commit replaces
\* the registered interval by one that captured the committed snapshot.
C30_OneInterval ==
    /\ [](Len(timers) <= 1)
    /\ [](mounted <=> Len(timers) = 1)
    /\ [][(mounted' /\ data' # data)
             => timers' = <<[data |-> data', at |-> now']>>]_vars

C30_Witness ==
    /\ ~mounted
    /\ timers = <<>>
    /\ refreshes = 2
    /\ lastRefreshed > start
    /\ timeouts # <<>>

\* C25: a prompt built in environment-variable mode (relayType github, so
\* useEnvVars true) embeds none of the username, the password and the
\* Sensecraft API key, whatever the mode.
C25_NoSecretsInEnvVarMode ==
    \A i \in 1..Len(sent) :
        sent[i].useEnvVars =>
            sent[i].embeds \cap {"username", "password", "sensecraftApiKey"} = {}

GithubRelay == [mode |-> "relay", relayType |-> "github"]

C27_WorkflowOnlyForGithubRelay ==
    /\ workflow # <<>> => requested = <<GithubRelay>>
    /\ \A i \in 1..Len(sent) :
          sent[i].fn = "generateGithubWorkflow" =>
              /\ i = 2
              /\ sent[1].fn = "generatePythonScript"
              /\ requested = <<GithubRelay>>
              /\ generating # <<>>
                    => Head(generating).awaits = "generateGithubWorkflow"
    /\ \A i \in 1..Len(generating) :
          generating[i].awaits = "generateGithubWorkflow" =>
              /\ generating[i].mode = "relay"
              /\ generating[i].relayType = "github"

C27_Witness ==
    /\ workflow # <<>>
    /\ generations = 2
    /\ requested = <<GithubRelay>>
    /\ mode = "direct"
    /\ Len(sent) = 2

\* C28: whenever the Installation Manual is displayed (script non-empty,
\* mode relay, relayType github) and no generation is in flight, the
\* workflow shown in its step 2 is non-empty.
C28_ManualHasWorkflow ==
    (script # <<>> /\ mode = "relay" /\ relayType = "github" /\ ~loading)
        => workflow # <<>>

\* C29: the file name and the deployment instructions shown with a script
\* are those of the mode and relayType the script was generated with.
C29_LabelsOfGeneration ==
    script # <<>> =>
        /\ requested # <<>>
        /\ FileName(mode) = FileName(requested[1].mode)
        /\ HowToDeploy(mode, relayType) =
              HowToDeploy(requested[1].mode, requested[1].relayType)

====
